---- MODULE Spec2Model ----
(***************************************************************************)
(* Model of claymore_exporter, revision with per-GPU temperature and fan   *)
(* speed (src/unnamed/part_001, lines 223-511).                            *)
(*                                                                         *)
(* A Go string is a sequence of one-character strings.  Go slices are      *)
(* sequences; the Go index i is the TLA+ index i+1.                        *)
(* A JSON value is [t |-> "null"], [t |-> "num"], [t |-> "str", s |-> _]   *)
(* or [t |-> "arr", elems |-> _].                                          *)
(***************************************************************************)
EXTENDS Integers, Sequences, FiniteSets, TLC

\* Number of scrapes served in a behaviour (caps the scrape counter).
MaxScrapes == 2

VARIABLES
    env,      \* value of CLAYMORE_DIAL_ADDR in the process environment
    proc,     \* "running" | "fatal" (log.Fatal -> os.Exit) | "panic"
    pc,       \* position of the Collect goroutine
    scrapes,  \* number of scrapes that returned
    conf,     \* Collect's local conf.Dial_Addr
    idx,      \* iteration of "for _, addr := range conf.Dial_Addr" (1-based)
    reply,    \* Collect's local reply (JSON value; null before assignment)
    stats,    \* Collect's local stats
    ch,       \* samples sent on the scrape's channel, in order
    log,      \* lines written to the log since the scrape began
    calls     \* what the network did for each iteration of this scrape

vars == <<env, proc, pc, scrapes, conf, idx, reply, stats, ch, log, calls>>

----------------------------------------------------------------------------
\* Strings

Semi == ";"

Digits == {"0", "1", "2", "3", "4", "5", "6", "7", "8", "9"}

DigitVal(c) ==
    CASE c = "0" -> 0 [] c = "1" -> 1 [] c = "2" -> 2 [] c = "3" -> 3
      [] c = "4" -> 4 [] c = "5" -> 5 [] c = "6" -> 6 [] c = "7" -> 7
      [] c = "8" -> 8 [] c = "9" -> 9

DigitChar(d) ==
    CASE d = 0 -> "0" [] d = 1 -> "1" [] d = 2 -> "2" [] d = 3 -> "3"
      [] d = 4 -> "4" [] d = 5 -> "5" [] d = 6 -> "6" [] d = 7 -> "7"
      [] d = 8 -> "8" [] d = 9 -> "9"

\* strings.Split(s, ";"): always at least one part; "" gives <<"">>.
RECURSIVE Split(_)
Split(s) ==
    IF \A i \in 1..Len(s) : s[i] # Semi
    THEN <<s>>
    ELSE LET i == CHOOSE k \in 1..Len(s) :
                      /\ s[k] = Semi
                      /\ \A m \in 1..(k-1) : s[m] # Semi
         IN  <<SubSeq(s, 1, i-1)>> \o Split(SubSeq(s, i+1, Len(s)))

RECURSIVE DecimalValue(_)
DecimalValue(s) ==
    IF Len(s) = 0 THEN 0
    ELSE 10 * DecimalValue(SubSeq(s, 1, Len(s)-1)) + DigitVal(s[Len(s)])

\* strconv.ParseFloat(s, 32) on strings of decimal digits and letters: a
\* non-empty digit string is its value (exact in float32 below 2^24), any
\* other string of this alphabet is a syntax error with value 0.
ParseFloat(s) ==
    IF Len(s) > 0 /\ \A i \in 1..Len(s) : s[i] \in Digits
    THEN [val |-> DecimalValue(s), err |-> FALSE]
    ELSE [val |-> 0, err |-> TRUE]

\* fmt.Sprintf("%v", i) for i >= 0.
RECURSIVE Itoa(_)
Itoa(i) ==
    IF i < 10 THEN <<DigitChar(i)>>
    ELSE Itoa(i \div 10) \o <<DigitChar(i % 10)>>

\* fmt.Sprintf("GPU%v", i)
GPUName(i) == <<"G", "P", "U">> \o Itoa(i)

----------------------------------------------------------------------------
\* JSON

Null == [t |-> "null"]

JStr(s) == [t |-> "str", s |-> s]

JNum == [t |-> "num"]

JArr(fields) == [t |-> "arr", elems |-> [i \in DOMAIN fields |-> JStr(fields[i])]]

\* json.Marshal(&reply) followed by json.Unmarshal(j, &result) with
\* result []string and the error ignored: null and non-arrays leave result
\* nil, a non-string element leaves "" in its place.
Unmarshal(j) ==
    IF j.t = "arr"
    THEN [i \in DOMAIN j.elems |->
            IF j.elems[i].t = "str" THEN j.elems[i].s ELSE <<>>]
    ELSE <<>>

----------------------------------------------------------------------------
\* Configuration

\* readConf: panics when CLAYMORE_DIAL_ADDR is empty, else splits it on ";".
\* Port, Proto and Method do not influence the modelled behaviour.
readConf(e) ==
    IF Len(e) = 0
    THEN [panic |-> TRUE, Dial_Addr |-> <<>>]
    ELSE [panic |-> FALSE, Dial_Addr |-> Split(e)]

----------------------------------------------------------------------------
\* Rig client

fake_reply ==
    JArr(<< <<"F","a","k","e"," ","V","e","r","s","i","o","n">>,
            <<"0">>,
            <<"0",";","0",";","0">>,
            <<"0">>,
            <<"0",";","0",";","0">>,
            <<"o","f","f",";","o","f","f",";","o","f","f",";","o","f","f">>,
            <<"0",";","0">>,
            <<"f","a","k","e",".","m","i","n","e","r">>,
            <<"0",";","0",";","0",";","0">> >>)

\* callClaymore serving the reply it already holds instead of calling.
callClaymoreCached(dialErr, resp) ==
    IF reply # Null
    THEN [exit |-> FALSE, log |-> <<>>, reply |-> reply]
    ELSE IF dialErr
    THEN [exit |-> FALSE, log |-> <<"Dialing:">>, reply |-> fake_reply]
    ELSE IF resp.kind = "error"
    THEN [exit |-> TRUE, log |-> <<"Can't parse response:">>, reply |-> Null]
    ELSE [exit |-> FALSE, log |-> <<>>, reply |-> resp.result]

\* callClaymore returning its unassigned reply when the dial fails.
callClaymoreNoPlaceholder(dialErr, resp) ==
    IF dialErr
    THEN [exit |-> FALSE, log |-> <<"Dialing:">>, reply |-> Null]
    ELSE IF resp.kind = "error"
    THEN [exit |-> TRUE, log |-> <<"Can't parse response:">>, reply |-> Null]
    ELSE [exit |-> FALSE, log |-> <<>>, reply |-> resp.result]

\* callClaymore once net.Dial and c.Call have returned.  dialErr: net.Dial
\* failed.  resp: what c.Call got, [kind |-> "error"] or
\* [kind |-> "result", result |-> j].
callClaymore(dialErr, resp) ==
    IF dialErr
    THEN [exit |-> FALSE, log |-> <<"Dialing:">>, reply |-> fake_reply]
    ELSE IF resp.kind = "error"
    THEN [exit |-> TRUE, log |-> <<"Can't parse response:">>, reply |-> Null]
    ELSE [exit |-> FALSE, log |-> <<>>, reply |-> resp.result]

----------------------------------------------------------------------------
\* Reply decoder

\* Temps with the parity test inverted.
TempsOddParity(parts) == [k \in 1..(Len(parts) \div 2) |-> parts[2*k]]

\* Entries of parts at even Go indices (TLA+ indices 1, 3, ...).
Temps(parts) == [k \in 1..((Len(parts) + 1) \div 2) |-> parts[2*k - 1]]

\* Entries of parts at odd Go indices (TLA+ indices 2, 4, ...).
Fans(parts) == [k \in 1..(Len(parts) \div 2) |-> parts[2*k]]

NoStats == [kind |-> "none"]

PanicStats == [kind |-> "panic"]

\* parseReply: every index expression of the Go code panics when the index
\* is out of range.
parseReply(r) ==
    LET result == Unmarshal(r) IN
    IF Len(result) < 3 THEN PanicStats          \* result[2]
    ELSE IF Len(result) < 4 THEN PanicStats     \* result[3]
    ELSE IF Len(result) < 7 THEN PanicStats     \* result[6]
    ELSE
      LET totals   == Split(result[3])
          hashrate == Split(result[4])
          tf       == Split(result[7])
          temps    == Temps(tf)
          fans     == Fans(tf)
      IN
      IF \E i \in 1..Len(hashrate) : i > Len(fans) \/ i > Len(temps)
      THEN PanicStats                           \* fans[i], temps[i]
      ELSE IF Len(totals) < 3 THEN PanicStats   \* totals[1], totals[2]
      ELSE [kind      |-> "ok",
            Uptime    |-> result[2],
            TotalRate |-> totals[1],
            EthFound  |-> totals[2],
            EthReject |-> totals[3],
            GPUs      |-> [i \in 1..Len(hashrate) |->
                             [Name     |-> GPUName(i - 1),
                              HashRate |-> hashrate[i],
                              Temp     |-> temps[i],
                              FanSpeed |-> fans[i]]]]

----------------------------------------------------------------------------
\* Metrics

Sample(desc, value, labels) == [desc |-> desc, value |-> value, labels |-> labels]

\* Emit with the fan-speed samples built on the temperature descriptor.
EmitFanAsTemp(addr, st) ==
    << Sample("uptimeDesc",    ParseFloat(st.Uptime).val,    <<addr>>),
       Sample("ethfoundDesc",  ParseFloat(st.EthFound).val,  <<addr>>),
       Sample("ethrejectDesc", ParseFloat(st.EthReject).val, <<addr>>),
       Sample("totalrateDesc", ParseFloat(st.TotalRate).val, <<addr>>) >>
    \o [i \in 1..Len(st.GPUs) |->
          Sample("hashrateDesc", ParseFloat(st.GPUs[i].HashRate).val,
                 <<addr, st.GPUs[i].Name>>)]
    \o [i \in 1..Len(st.GPUs) |->
          Sample("tempDesc", ParseFloat(st.GPUs[i].Temp).val,
                 <<addr, st.GPUs[i].Name>>)]
    \o [i \in 1..Len(st.GPUs) |->
          Sample("tempDesc", ParseFloat(st.GPUs[i].FanSpeed).val,
                 <<addr, st.GPUs[i].Name>>)]

\* The sends of one iteration of Collect's loop, in program order.
Emit(addr, st) ==
    << Sample("uptimeDesc",    ParseFloat(st.Uptime).val,    <<addr>>),
       Sample("ethfoundDesc",  ParseFloat(st.EthFound).val,  <<addr>>),
       Sample("ethrejectDesc", ParseFloat(st.EthReject).val, <<addr>>),
       Sample("totalrateDesc", ParseFloat(st.TotalRate).val, <<addr>>) >>
    \o [i \in 1..Len(st.GPUs) |->
          Sample("hashrateDesc", ParseFloat(st.GPUs[i].HashRate).val,
                 <<addr, st.GPUs[i].Name>>)]
    \o [i \in 1..Len(st.GPUs) |->
          Sample("tempDesc", ParseFloat(st.GPUs[i].Temp).val,
                 <<addr, st.GPUs[i].Name>>)]
    \o [i \in 1..Len(st.GPUs) |->
          Sample("fanspeedDesc", ParseFloat(st.GPUs[i].FanSpeed).val,
                 <<addr, st.GPUs[i].Name>>)]

\* The descriptors Describe sends, in order.
Describe ==
    <<"uptimeDesc", "totalrateDesc", "ethfoundDesc", "ethrejectDesc",
      "hashrateDesc">>

----------------------------------------------------------------------------
\* Inputs

\* Values of CLAYMORE_DIAL_ADDR.
Envs ==
    { <<>>,
      <<"a">>,
      <<"a", ";", "a">>,
      <<"a", ";", "b", ";", "c">> }

f_v      == <<"v">>
f_fan    == <<"f", "a", "n">>
f_x      == <<"x">>
f_totals == <<"1","2","0",";","1","0",";","2">>
f_hr2    == <<"1","0","0",";","2","0","0">>
f_tf2    == <<"0",";","5","0",";","1",";","6","0">>

Example == <<f_v, <<"5">>, f_totals, f_hr2, f_fan, f_x, f_tf2>>

\* Field lists the rigs answer with.
ReplyFields ==
    { Example,
      \* one device, other values
      <<f_v, <<"7">>, <<"3","0",";","3",";","1">>, <<"3","0">>, f_fan, f_x,
        <<"9",";","8","0">>>>,
      \* trailing fields after position 6
      Example \o <<f_x, f_x>>,
      \* non-numeric hash-rate entry
      <<f_v, <<"5">>, f_totals, <<"1","x",";","2","0","0">>, f_fan, f_x, f_tf2>>,
      \* empty hash-rate field
      <<f_v, <<"5">>, f_totals, <<>>, f_fan, f_x, <<"0",";","5","0">>>>,
      <<f_v, <<"5">>, f_totals, <<>>, f_fan, f_x, <<>>>>,
      \* temperature/fan field shorter, odd, longer than two per device
      <<f_v, <<"5">>, f_totals, f_hr2, f_fan, f_x, <<"0",";","5","0">>>>,
      <<f_v, <<"5">>, f_totals, f_hr2, f_fan, f_x, <<"0",";","5","0",";","1">>>>,
      <<f_v, <<"5">>, f_totals, f_hr2, f_fan, f_x,
        <<"0",";","5","0",";","1",";","6","0",";","2",";","7","0">>>>,
      \* totals with two parts
      <<f_v, <<"5">>, <<"1","2","0",";","1","0">>, f_hr2, f_fan, f_x, f_tf2>>,
      \* short replies
      <<>>,
      SubSeq(Example, 1, 3),
      SubSeq(Example, 1, 4),
      SubSeq(Example, 1, 6) }

\* JSON results a rig can put in its response.
Results ==
    { JArr(f) : f \in ReplyFields }
    \cup { Null,
           \* uptime sent as a JSON number
           [t |-> "arr",
            elems |-> [i \in 1..7 |-> IF i = 2 THEN JNum ELSE JStr(Example[i])]] }

\* What a rig does with the call after accepting the connection.
Responses ==
    { [kind |-> "result", result |-> j] : j \in Results }
    \cup { [kind |-> "error"], [kind |-> "silent"] }

NoResponse == [kind |-> "none"]

----------------------------------------------------------------------------
\* Behaviour

Init ==
    /\ env \in Envs
    /\ proc = "running"
    /\ pc = "idle"
    /\ scrapes = 0
    /\ conf = <<>>
    /\ idx = 0
    /\ reply = Null
    /\ stats = NoStats
    /\ ch = <<>>
    /\ log = <<>>
    /\ calls = <<>>

\* A scrape request arrives: Collect starts with a fresh channel and reads
\* the configuration.
Collect ==
    /\ proc = "running"
    /\ pc = "idle"
    /\ scrapes < MaxScrapes
    /\ LET c == readConf(env) IN
       /\ conf' = c.Dial_Addr
       /\ IF c.panic
          THEN /\ proc' = "panic"
               /\ pc' = "readConf"
               /\ idx' = 0
          ELSE /\ proc' = proc
               /\ pc' = "dial"
               /\ idx' = 1
    /\ reply' = Null
    /\ stats' = NoStats
    /\ ch' = <<>>
    /\ log' = <<>>
    /\ calls' = <<>>
    /\ UNCHANGED <<env, scrapes>>

\* net.Dial returns.  It has no timeout of its own but the transport gives
\* up on an unanswered connect, so it always returns.
Dial ==
    /\ proc = "running"
    /\ pc = "dial"
    /\ \/ \* dial error: callClaymore returns the placeholder
          LET r == callClaymore(TRUE, NoResponse) IN
          /\ calls' = Append(calls, [addr |-> conf[idx], dialErr |-> TRUE,
                                     resp |-> NoResponse])
          /\ log' = log \o r.log
          /\ reply' = r.reply
          /\ pc' = "parse"
       \/ \* connected: c.Call is sent and blocks
          \E resp \in Responses :
          /\ calls' = Append(calls, [addr |-> conf[idx], dialErr |-> FALSE,
                                     resp |-> resp])
          /\ pc' = "call"
          /\ UNCHANGED <<log, reply>>
    /\ UNCHANGED <<env, proc, scrapes, conf, idx, stats, ch>>

\* c.Call returns once the rig has responded; a silent rig never lets it.
CallReturn ==
    /\ proc = "running"
    /\ pc = "call"
    /\ calls[idx].resp.kind # "silent"
    /\ LET r == callClaymore(FALSE, calls[idx].resp) IN
       /\ log' = log \o r.log
       /\ reply' = r.reply
       /\ IF r.exit
          THEN proc' = "fatal" /\ pc' = pc
          ELSE proc' = proc /\ pc' = "parse"
    /\ UNCHANGED <<env, scrapes, conf, idx, stats, ch, calls>>

\* stats := parseReply(reply) and the sends of this iteration.
Decode ==
    /\ proc = "running"
    /\ pc = "parse"
    /\ LET st == parseReply(reply) IN
       /\ stats' = st
       /\ IF st.kind = "panic"
          THEN /\ proc' = "panic"
               /\ pc' = pc
               /\ ch' = ch
          ELSE /\ proc' = proc
               /\ pc' = "loop"
               /\ ch' = ch \o Emit(conf[idx], st)
    /\ UNCHANGED <<env, scrapes, conf, idx, reply, log, calls>>

\* Next address, or Collect returns.
LoopNext ==
    /\ proc = "running"
    /\ pc = "loop"
    /\ IF idx < Len(conf)
       THEN /\ idx' = idx + 1
            /\ pc' = "dial"
            /\ scrapes' = scrapes
       ELSE /\ idx' = idx
            /\ pc' = "idle"
            /\ scrapes' = scrapes + 1
    /\ UNCHANGED <<env, proc, conf, reply, stats, ch, log, calls>>

Next == Collect \/ Dial \/ CallReturn \/ Decode \/ LoopNext

Spec == Init /\ [][Next]_vars

\* The goroutine takes its next step whenever it can.
LiveSpec == Spec /\ WF_vars(Next)

----------------------------------------------------------------------------
\* Vocabulary of the properties

\* Iterations of the current scrape whose sends have been made.
Emitted == {k \in 1..Len(conf) : k < idx \/ (k = idx /\ pc \in {"loop", "idle"})}

\* stats is the outcome of decoding the current reply.
Decoded ==
    /\ stats.kind # "none"
    /\ pc \in {"loop", "idle"} \/ (pc = "parse" /\ proc = "panic")

\* The scrape has returned and its output is complete.
ScrapeDone == pc = "idle" /\ scrapes >= 1 /\ proc = "running"

\* The positions of the current reply as parseReply sees them.
Result == Unmarshal(reply)

\* Number of samples of ch satisfying P.
Count(P(_)) == Cardinality({n \in 1..Len(ch) : P(ch[n])})

DeviceDescs == {"hashrateDesc", "tempDesc", "fanspeedDesc"}

RigDescs == {"uptimeDesc", "totalrateDesc", "ethfoundDesc", "ethrejectDesc"}

Distinct(s) == \A i, j \in 1..Len(s) : i # j => s[i] # s[j]

\* The sends of the current iteration (meaningful when stats.kind = "ok").
IterSamples == SubSeq(ch, Len(ch) - (4 + 3 * Len(stats.GPUs)) + 1, Len(ch))

----------------------------------------------------------------------------
\* C1: a protocol-level error returned by c.Call aborts only that rig's
\* poll; the process is still running afterwards.
RpcErrorKeepsProcessRunning ==
    (\E n \in 1..Len(log) : log[n] = "Can't parse response:") => proc = "running"

\* C2: in a completed scrape over three distinct rigs of which exactly one
\* failed to dial, the unreachable rig has no sample, each of the other two
\* has its full set (4 rig-level samples and 3 per device), and the dial
\* failure is in the log.
UnreachableRigContributesNothing ==
    (/\ ScrapeDone
     /\ Len(conf) = 3
     /\ Distinct(conf)
     /\ Cardinality({k \in 1..3 : calls[k].dialErr}) = 1)
    => \A k \in 1..3 :
         LET mine(m) == m.labels[1] = conf[k] IN
         IF calls[k].dialErr
         THEN /\ Count(mine) = 0
              /\ \E n \in 1..Len(log) : log[n] = "Dialing:"
         ELSE LET N == Len(Split(Unmarshal(calls[k].resp.result)[4]))
              IN  Count(mine) = 4 + 3 * N

\* C3: decoding a reply of any length either returns a record or fails with
\* MalformedReply, never panics, and a reply with fewer than 4 positions
\* fails with MalformedReply.
DecodeNeverPanics ==
    Decoded =>
      /\ stats.kind \in {"ok", "MalformedReply"}
      /\ Len(Result) < 4 => stats.kind = "MalformedReply"

\* C4: a reply with N hash-rate entries decodes to a record only when the
\* temperature/fan field de-interleaves into exactly N temperatures and N
\* fan speeds; otherwise decoding fails with MalformedReply.
DeviceCountsMatchOrMalformed ==
    (Decoded /\ Len(Result) >= 7 /\ Len(Split(Result[3])) >= 3) =>
      LET N  == Len(Split(Result[4]))
          tf == Split(Result[7])
      IN  IF Len(Temps(tf)) = N /\ Len(Fans(tf)) = N
          THEN stats.kind = "ok" /\ Len(stats.GPUs) = N
          ELSE stats.kind = "MalformedReply"

\* C5: a decoded record takes uptime from position 1, total rate, shares
\* found and shares rejected from the three ';'-parts of position 2, the
\* hash rate of device i from part i of position 3, and its temperature and
\* fan speed from parts 2i and 2i+1 of position 6; the reply
\* ["v","5","120;10;2","100;200","fan","x","0;50;1;60"] yields uptime 5,
\* total rate 120, found 10, rejected 2, hash rates 100 and 200,
\* temperatures 0 and 1, fan speeds 50 and 60.
FixedPositionsAndParity ==
    (Decoded /\ stats.kind = "ok") =>
      LET totals == Split(Result[3])
          hr     == Split(Result[4])
          tf     == Split(Result[7])
      IN  /\ stats.Uptime = Result[2]
          /\ <<stats.TotalRate, stats.EthFound, stats.EthReject>>
               = <<totals[1], totals[2], totals[3]>>
          /\ Len(stats.GPUs) = Len(hr)
          /\ \A i \in 1..Len(hr) :
               /\ stats.GPUs[i].HashRate = hr[i]
               /\ stats.GPUs[i].Temp = tf[2 * (i - 1) + 1]
               /\ stats.GPUs[i].FanSpeed = tf[2 * (i - 1) + 2]
          /\ reply = JArr(Example) =>
               /\ [n \in 1..10 |-> IterSamples[n].desc]
                    = <<"uptimeDesc", "ethfoundDesc", "ethrejectDesc",
                        "totalrateDesc", "hashrateDesc", "hashrateDesc",
                        "tempDesc", "tempDesc", "fanspeedDesc", "fanspeedDesc">>
               /\ [n \in 1..10 |-> IterSamples[n].value]
                    = <<5, 10, 2, 120, 100, 200, 0, 1, 50, 60>>

\* The example reply has been decoded and its samples sent.
ExampleDecoded == pc = "loop" /\ reply = JArr(Example) /\ stats.kind = "ok"

\* C6: a reply whose hash-rate field is the empty string decodes to a
\* record with zero devices; its rig gets the four rig-level samples and no
\* device-level sample.
EmptyHashRateMeansNoDevices ==
    (Decoded /\ Len(Result) >= 7 /\ Result[4] = <<>>) =>
      /\ stats.kind = "ok"
      /\ Len(stats.GPUs) = 0
      /\ \A n \in 1..Len(IterSamples) : IterSamples[n].desc \in RigDescs
      /\ \A d \in RigDescs : \E n \in 1..Len(IterSamples) : IterSamples[n].desc = d

\* Fields of the decoded record, in the order of their sends.
StatFields(st) ==
    <<st.Uptime, st.EthFound, st.EthReject, st.TotalRate>>
    \o [i \in 1..Len(st.GPUs) |-> st.GPUs[i].HashRate]
    \o [i \in 1..Len(st.GPUs) |-> st.GPUs[i].Temp]
    \o [i \in 1..Len(st.GPUs) |-> st.GPUs[i].FanSpeed]

NonNumeric(s) == Len(s) = 0 \/ \E i \in 1..Len(s) : s[i] \notin Digits

\* C7: a field that is not a number is sent as 0 while the other fields of
\* the record keep their values, and the parse failure is recorded: the
\* scrape's output or the log carries a parse-failure count.
ParseFailureDegradesAndIsRecorded ==
    (Decoded /\ stats.kind = "ok") =>
      LET f == StatFields(stats) IN
      /\ Len(IterSamples) = Len(f)
      /\ \A n \in 1..Len(f) :
           IterSamples[n].value = IF NonNumeric(f[n]) THEN 0 ELSE DecimalValue(f[n])
      /\ (\E n \in 1..Len(f) : NonNumeric(f[n])) =>
           \/ \E m \in 1..Len(log) : log[m] = "FieldParseFailure"
           \/ \E m \in 1..Len(ch) : ch[m].desc = "parseFailuresDesc"

\* The reply decoded by iteration k of the current scrape.
ReplyOf(k) ==
    IF calls[k].dialErr THEN fake_reply
    ELSE IF calls[k].resp.kind = "result" THEN calls[k].resp.result
    ELSE Null

\* Number of devices in the hash-rate field of iteration k's reply.
DevicesOf(k) == Len(Split(Unmarshal(ReplyOf(k))[4]))

\* Rig addresses configured or carried by a sample.
RigLabels ==
    {conf[k] : k \in 1..Len(conf)} \cup {ch[n].labels[1] : n \in 1..Len(ch)}

\* C8: for every metric, rig address and device id, the number of samples
\* with that descriptor and those labels equals the number of decoded
\* iterations for that address (having that device, for a device metric):
\* one per decoded rig, none for another address, none twice when the
\* addresses are distinct; rig-level samples carry the address only,
\* device samples the address and GPU<i>.
OneSamplePerMetricRigDevice ==
    /\ \A n \in 1..Len(ch) :
         \/ ch[n].desc \in RigDescs /\ Len(ch[n].labels) = 1
         \/ ch[n].desc \in DeviceDescs /\ Len(ch[n].labels) = 2
    /\ \A a \in RigLabels :
         /\ \A d \in RigDescs :
              LET is(m) == m.desc = d /\ m.labels = <<a>> IN
              Count(is) = Cardinality({k \in Emitted : conf[k] = a})
         /\ \A d \in DeviceDescs : \A i \in 0..Len(ch) :
              LET is(m) == m.desc = d /\ m.labels = <<a, GPUName(i)>> IN
              Count(is) = Cardinality({k \in Emitted : conf[k] = a /\ i < DevicesOf(k)})
    /\ \A n \in 1..Len(ch) :
         ch[n].desc \in DeviceDescs =>
           \E i \in 0..Len(ch) : ch[n].labels[2] = GPUName(i)
    /\ Distinct(conf) =>
         \A m, n \in 1..Len(ch) :
           (ch[m].desc = ch[n].desc /\ ch[m].labels = ch[n].labels) => m = n

\* Three distinct rigs were decoded in one scrape, one of them with two
\* devices.
ThreeRigsEmitted ==
    /\ ScrapeDone
    /\ Len(conf) = 3
    /\ \E k \in 1..3 : DevicesOf(k) = 2
    /\ \E k \in 1..3 : ~calls[k].dialErr /\ DevicesOf(k) = 1

\* The samples the replies of iterations 1..k of this scrape decode to.
RECURSIVE SamplesUpTo(_)
SamplesUpTo(k) ==
    IF k = 0 THEN <<>>
    ELSE SamplesUpTo(k - 1) \o Emit(conf[k], parseReply(ReplyOf(k)))

\* C9: every iteration of every scrape makes its own call to its rig, and
\* the samples of a scrape are those of the replies received in that
\* scrape, in order.
EveryScrapeIsFresh ==
    /\ Len(calls) = IF pc = "dial" THEN idx - 1 ELSE idx
    /\ \A k \in 1..Len(calls) : calls[k].addr = conf[k]
    /\ Decoded /\ stats.kind = "ok" => stats = parseReply(ReplyOf(idx))
    /\ ch = SamplesUpTo(Cardinality(Emitted))

\* A second scrape has finished after a first one, with output.
SecondScrapeDone == ScrapeDone /\ scrapes = 2 /\ Len(ch) > 4

\* C10: a call to a rig that accepted the connection and never answers is
\* abandoned, so the scrape leaves the call.
SilentRigCallIsAbandoned ==
    (pc = "call" /\ proc = "running" /\ calls[idx].resp.kind = "silent")
      ~> (pc # "call")

\* C11: when the dial of the current rig has failed, callClaymore has logged
\* it and returned the placeholder; the placeholder decodes to a record
\* without a panic, every sample then sent for that rig is 0, and the
\* process is running with the loop about to go on.
PlaceholderDecodesToZeros ==
    (idx >= 1 /\ Len(calls) = idx /\ calls[idx].dialErr) =>
      /\ reply = fake_reply
      /\ \E n \in 1..Len(log) : log[n] = "Dialing:"
      /\ proc = "running"
      /\ pc \in {"parse", "loop", "idle"}
      /\ pc \in {"loop", "idle"} =>
           /\ stats.kind = "ok"
           /\ Len(stats.GPUs) >= 1
           /\ Len(IterSamples) = 4 + 3 * Len(stats.GPUs)
           /\ \A n \in 1..Len(IterSamples) :
                /\ IterSamples[n].value = 0
                /\ IterSamples[n].labels[1] = conf[idx]
           /\ pc = "loop" => ENABLED LoopNext

\* The placeholder of an unreachable rig has been decoded and sent.
PlaceholderEmitted ==
    /\ pc = "loop"
    /\ calls[idx].dialErr
    /\ idx < Len(conf)
    /\ Len(ch) >= 7

\* C12: every sample Collect sends is built on a descriptor that Describe
\* sends, and on the descriptor of its own metric: rig-level descriptors
\* with the rig label, device descriptors with rig and GPU labels.
CollectedDescsAreDescribed ==
    \A n \in 1..Len(ch) :
      /\ \E m \in 1..Len(Describe) : Describe[m] = ch[n].desc
      /\ \/ ch[n].desc \in RigDescs /\ Len(ch[n].labels) = 1
         \/ ch[n].desc \in DeviceDescs /\ Len(ch[n].labels) = 2

====
